---- MODULE Spec2Model ----
(***************************************************************************)
(* Model of population_sampler (MH-in-Gibbs sampler on the simplex) and of *)
(* loglike_nz / logprior from app_hbm_galaxy_evolution.ipynb.              *)
(*                                                                         *)
(* Number representation.  Arithmetic is exact, except where the doubles   *)
(* of lines 333-346 are computed bit for bit (FlRatio, FlMul, FlAdd).      *)
(*  - a histogram component p stands for p / PosDen, PosDen = pdfs.sum();  *)
(*  - an entry q of the observation table stands for q / PdfDen;           *)
(*  - an overlap o stands for o / (PdfDen * PosDen);                       *)
(*  - a real that is not on that grid (the finite-difference probes at     *)
(*    +-scale/2) is a sequence of integer coefficients <<c0, c1, ...>>     *)
(*    standing for c0 + c1*e + c2*e^2 + ..., e = 1 / (2 * ScaleDen);       *)
(*  - a logarithm is carried by its argument: the record [k |-> "fin",     *)
(*    v |-> x] stands for log(x), [k |-> "ninf"] for -inf = log(0) and     *)
(*    [k |-> "nan"] for NaN = log(negative); adding two logarithms         *)
(*    multiplies their arguments.                                          *)
(***************************************************************************)
EXTENDS Integers, Sequences, FiniteSets

\* ------------------------------------------------------------------ bounds
MaxNiter == 2
MaxThin == 2
MaxMh == 2
MaxStep == 2
MaxProposals == 3
ShapeProposals == 4
FineProposals == 1
UDen == 2
MaxComp == 3

\* scale = 1e-4 * min(...)
ScaleDen == 10000

\* abs(scale * 1e4)
CapFactor == 10000

\* ------------------------------------------------------- option values
None == << >>
Some(x) == << x >>
Get(o) == o[1]

\* ------------------------------------------------ exact real arithmetic
PGet(p, n) == IF n <= Len(p) THEN p[n] ELSE 0
PMax(a, b) == IF a >= b THEN a ELSE b
PAdd(p, q) == [n \in 1..PMax(Len(p), Len(q)) |-> PGet(p, n) + PGet(q, n)]
PScale(c, p) == [n \in 1..Len(p) |-> c * p[n]]
PSub(p, q) == PAdd(p, PScale(-1, q))

RECURSIVE PConv(_, _, _, _)
PConv(p, q, n, a) ==
    IF a = 0 THEN 0 ELSE PGet(p, a) * PGet(q, n + 1 - a) + PConv(p, q, n, a - 1)
PMul(p, q) == [n \in 1..(Len(p) + Len(q) - 1) |-> PConv(p, q, n, n)]

RECURSIVE PSignFrom(_, _)
PSignFrom(p, n) ==
    IF n > Len(p) THEN 0
    ELSE IF p[n] > 0 THEN 1
    ELSE IF p[n] < 0 THEN -1
    ELSE PSignFrom(p, n + 1)
\* sign of c0 + c1*e + ...: the lowest-order nonzero coefficient decides,
\* every coefficient being smaller in magnitude than 1/e
PSign(p) == PSignFrom(p, 1)

RECURSIVE PPow(_, _)
PPow(p, n) == IF n = 0 THEN << 1 >> ELSE PMul(p, PPow(p, n - 1))

\* ------------------------------------------------------- log values
LnFin(p) == [k |-> "fin", v |-> p]
LnNInf == [k |-> "ninf", v |-> << 0 >>]
LnNaN == [k |-> "nan", v |-> << 0 >>]
LnZero == LnFin(<< 1 >>)

\* variant: non-positive entries are left out of the sum of logarithms
NpLogMasked(p) == IF PSign(p) > 0 THEN LnFin(p) ELSE LnZero

\* np.log(x)
NpLog(p) == IF PSign(p) > 0 THEN LnFin(p)
            ELSE IF PSign(p) = 0 THEN LnNInf ELSE LnNaN

\* a + b on floats holding logarithms (no +inf arises)
LnAdd(a, b) ==
    IF a.k = "nan" \/ b.k = "nan" THEN LnNaN
    ELSE IF a.k = "ninf" \/ b.k = "ninf" THEN LnNInf
    ELSE LnFin(PMul(a.v, b.v))

\* ------------------------------------------------------- vectors
Vec(s) == [b \in 0..(Len(s) - 1) |-> s[b + 1]]
Size(f) == Cardinality(DOMAIN f)

RECURSIVE SumTo(_, _)
SumTo(f, n) == IF n = 0 THEN 0 ELSE f[n - 1] + SumTo(f, n - 1)
\* np.sum of an integer vector
Sum(f) == SumTo(f, Size(f))

RECURSIVE PSumTo(_, _)
PSumTo(f, n) == IF n = 0 THEN << 0 >> ELSE PAdd(f[n - 1], PSumTo(f, n - 1))
PSum(f) == PSumTo(f, Size(f))

RECURSIVE LnSumTo(_, _)
LnSumTo(f, n) == IF n = 0 THEN LnZero ELSE LnAdd(f[n - 1], LnSumTo(f, n - 1))
\* np.sum of a vector of logarithms
LnSum(f) == LnSumTo(f, Size(f))

\* a histogram value as the code's functions receive it: grid components v,
\* or NaN in the bins of nanBins
Hist(v) == [v |-> [b \in DOMAIN v |-> << v[b] >>], nanBins |-> {}]

\* np.dot(pdfs, nz)
Dot(tab, v) == [o \in DOMAIN tab |-> Sum([b \in DOMAIN v |-> tab[o][b] * v[b]])]

\* ------------------------------------------------------- loglike_nz
\* nz: histogram value; tab: observation table; ov: None or Some(vector of
\* reals); pair: None or Some(<<i, j>>); pair_step: None or Some(real).
\* Returns (lnlike, overlap + perturb), the return_overlap=True form.
\* variant: only the non-finite components are checked
InvalidNonFinite(nz) == nz.nanBins # {}

Invalid(nz) == nz.nanBins # {} \/ \E b \in DOMAIN nz.v : PSign(nz.v[b]) < 0

\* variant: the two columns of the pair are exchanged
PerturbSwapped(tab, pair, pair_step) ==
    IF pair # None /\ pair_step # None
    THEN [o \in DOMAIN tab |->
            PScale(tab[o][Get(pair)[2]] - tab[o][Get(pair)[1]], Get(pair_step))]
    ELSE [o \in DOMAIN tab |-> << 0 >>]

Perturb(tab, pair, pair_step) ==
    IF pair # None /\ pair_step # None
    THEN [o \in DOMAIN tab |->
            PScale(tab[o][Get(pair)[1]] - tab[o][Get(pair)[2]], Get(pair_step))]
    ELSE [o \in DOMAIN tab |-> << 0 >>]

\* variant: the perturbation is computed before the validity check
loglike_nzPerturbFirst(nz, tab, ov, pair, pair_step) ==
    LET per == Perturb(tab, pair, pair_step)
    IN  IF Invalid(nz)
        THEN [lnlike |-> LnNInf,
              overlap |-> [o \in DOMAIN tab |-> PAdd(<< 0 >>, per[o])]]
        ELSE LET base == IF ov = None
                         THEN [o \in DOMAIN tab |->
                                 PSum([b \in DOMAIN nz.v |-> PScale(tab[o][b], nz.v[b])])]
                         ELSE Get(ov)
                 tot == [o \in DOMAIN tab |-> PAdd(base[o], per[o])]
             IN  [lnlike |-> LnSum([o \in DOMAIN tab |-> NpLog(tot[o])]),
                  overlap |-> tot]

loglike_nz(nz, tab, ov, pair, pair_step) ==
    IF Invalid(nz)
    THEN [lnlike |-> LnNInf, overlap |-> [o \in DOMAIN tab |-> << 0 >>]]
    ELSE LET base == IF ov = None
                     THEN [o \in DOMAIN tab |->
                             PSum([b \in DOMAIN nz.v |-> PScale(tab[o][b], nz.v[b])])]
                     ELSE Get(ov)
             per == Perturb(tab, pair, pair_step)
             tot == [o \in DOMAIN tab |-> PAdd(base[o], per[o])]
         IN  [lnlike |-> LnSum([o \in DOMAIN tab |-> NpLog(tot[o])]),
              overlap |-> tot]

\* the array passed as overlap, as the caller finds it after the call: line
\* 610 binds the local name only when nothing was passed, and lines 606, 617
\* and 620 build new arrays
loglike_nzArg(nz, tab, ov, pair, pair_step) == ov

\* ------------------------------------------------------- logprior
RECURSIVE Factorial(_)
Factorial(n) == IF n <= 1 THEN 1 ELSE n * Factorial(n - 1)

RECURSIVE ProdFactTo(_, _)
ProdFactTo(a, n) == IF n = 0 THEN 1 ELSE Factorial(a[n - 1] - 1) * ProdFactTo(a, n - 1)

\* 1 / B(a) = Gamma(sum a) / prod Gamma(a_b), an integer for integer a >= 1
DirichletNorm(a) == Factorial(Sum(a) - 1) \div ProdFactTo(a, Size(a))

RECURSIVE PProdTo(_, _)
PProdTo(f, n) == IF n = 0 THEN << 1 >> ELSE PMul(f[n - 1], PProdTo(f, n - 1))

LnErr == [k |-> "err", v |-> << 0 >>]

\* scipy.stats.dirichlet.logpdf(x, a): ValueError unless x lies on the
\* simplex, else sum_b (a_b - 1) * log(x_b) - log B(a)
DirichletLogpdf(x, a, den) ==
    IF x.nanBins # {} THEN LnNaN
    ELSE IF \/ \E b \in DOMAIN x.v : PSign(x.v[b]) < 0
            \/ \E b \in DOMAIN x.v : PSign(PSub(x.v[b], << den >>)) > 0
            \/ PSign(PSub(PSum(x.v), << den >>)) # 0
    THEN LnErr
    ELSE NpLog(PScale(DirichletNorm(a),
                      PProdTo([b \in DOMAIN x.v |-> PPow(x.v[b], a[b] - 1)], Size(a))))

\* logprior(x, alpha=None, counts_ref=None); den is the grid denominator of x
logprior(x, alpha, counts_ref, den) ==
    LET al == IF alpha = None THEN [b \in DOMAIN x.v |-> 1] ELSE Get(alpha)
        cr == IF counts_ref = None THEN [b \in DOMAIN x.v |-> 0] ELSE Get(counts_ref)
    IN  IF \E b \in (DOMAIN x.v) \ x.nanBins : PSign(x.v[b]) < 0
        THEN LnNInf
        ELSE DirichletLogpdf(x, [b \in DOMAIN x.v |-> al[b] + cr[b]], den)

\* the prior a run is called with: logprior_nz=None, or logprior_nz=logprior
\* with prior_args = [alpha, counts_ref]
NoPrior == [fn |-> "none", alpha |-> None, counts_ref |-> None]
WithPrior(al, cr) == [fn |-> "logprior", alpha |-> al, counts_ref |-> cr]

\* logprior_nz(pos, *prior_args, **prior_kwargs)
logprior_nz(x, prior, den) ==
    IF prior.fn = "none" THEN LnZero
    ELSE logprior(x, prior.alpha, prior.counts_ref, den)

\* ------------------------------------------------------- sampler state
VARIABLES
    pdfs,         \* self.pdfs
    hyper,        \* the prior, thin and mh_steps this sampler's runs are given
    samples,      \* self.samples
    samples_lnp,  \* self.samples_lnp
    pc,           \* where the blocking call run_mcmc stands; "idle" outside it
    args,         \* arguments of the run_mcmc call in progress
    start,        \* run_mcmc's local `pos`, the starting position it resolves
    pos,          \* sample's local `pos`
    lnpost,       \* sample's local `lnpost`
    overlap,      \* sample's local `overlap`
    it,           \* outer iterations yielded so far by the generator
    pairs,        \* the pairs of the current outer iteration that the loop
                  \* `for pair in pairs` has not finished; the first is current
    kstep,        \* Metropolis-Hastings proposals made on the current pair
    gscale,       \* sample's local `gscale` for the current pair
    last,         \* the Metropolis-Hastings proposal just made (observation)
    len0,         \* len(self.samples) when the current run was called
    completed,    \* outer iterations completed since the last reset
    yielded,      \* the pairs (pos, lnpost) yielded by the current generator
    proposals,    \* Metropolis-Hastings proposals requested so far, all runs
    cleared,      \* number of samples the last reset removed
    call,         \* a direct call of loglike_nz: its arguments and results
    tape,         \* the values rstate has returned to the generator observed
    caller,       \* the array the caller passed as pos_init, as the caller sees
                  \* it, and whether sample's local pos is that same array
    duo           \* two sampler instances whose generators are stepped in turn:
                  \* their random sources and what each has yielded

vars == << pdfs, hyper, samples, samples_lnp, pc, args, start, pos, lnpost, overlap,
           it, pairs, kstep, gscale, last, len0, completed, yielded,
           proposals, cleared, call, tape, caller, duo >>

\* the locals of run_mcmc and of the generator it drives
frame == << args, start, pos, lnpost, overlap, it, pairs, kstep, gscale, last,
            len0, yielded >>

\* Nobs, Ndim = self.pdfs.shape
Nobs == Size(pdfs)
Ndim == Size(pdfs[0])
Bins == 0..(Ndim - 1)

Mat(rows) == [o \in 0..(Len(rows) - 1) |-> Vec(rows[o + 1])]

\* observation tables: rows are normalised histograms in units of 1/2
PdfTables == { Mat(<< <<2, 0>>, <<1, 1>> >>),
               Mat(<< <<2, 0>>, <<0, 2>> >>) }

\* self.pdfs.sum(): one grid unit of a histogram is 1 / PosDen
PosDen == Sum([o \in DOMAIN pdfs |-> Sum(pdfs[o])])

\* self.pdfs.sum(axis=0) / self.pdfs.sum()
Stacked == [b \in Bins |-> Sum([o \in DOMAIN pdfs |-> pdfs[o][b]])]

\* pos_init arguments: None, and explicit ones on the simplex (interior,
\* and with a zero bin), with a negative component, and not summing to 1
PosInits == { None, Some(Vec(<<1, 3>>)), Some(Vec(<<0, 4>>)),
              Some(Vec(<<-1, 5>>)), Some(Vec(<<1, 1>>)) }

\* the default prior, and logprior with alpha = 1 in every bin and one
\* reference count in bin 0
Priors == { NoPrior, WithPrior(Some([b \in Bins |-> 1]),
                               Some([b \in Bins |-> IF b = 0 THEN 1 ELSE 0])) }

NoArgs == [Niter |-> 0, pos_init |-> None, thin |-> 1, mh_steps |-> 1,
           logprior_nz |-> NoPrior]
NoLast == [made |-> FALSE, pair |-> <<0, 0>>, znan |-> FALSE,
           pos |-> << >>, lnpost |-> LnZero, overlap |-> << >>,
           pos_new |-> << >>, lnpost_new |-> LnZero, overlap_new |-> << >>,
           accepted |-> FALSE, e |-> << 1, 1 >>, rnd |-> 0]
NoGscale == [k |-> "zero", cap |-> 0, grad |-> "zero", is |-> "none"]

\* no second instance is built
NoDuo == [rstate |-> "none", stream |-> << >>, inst |-> << >>]

\* no array of the caller is held
NoCaller == [pos_init |-> None, pos_is |-> "own"]

\* no draw observed
NoTape == [pairs |-> << >>, steps |-> << >>, on |-> << >>]

NoCall == [nz |-> Hist(<< >>), pair |-> <<0, 0>>, d |-> 0, inc |-> None,
           full |-> None, any |-> None, lp |-> None]

Hypers == [logprior_nz : Priors, thin : 1..MaxThin, mh_steps : 1..MaxMh]

Init ==
    /\ tape = NoTape
    /\ caller = NoCaller
    /\ duo = NoDuo
    /\ pdfs \in PdfTables
    /\ hyper \in Hypers
    /\ samples = << >>
    /\ samples_lnp = << >>
    /\ pc = "idle"
    /\ args = NoArgs
    /\ start = << >>
    /\ pos = << >>
    /\ lnpost = LnZero
    /\ overlap = << >>
    /\ it = 0
    /\ pairs = << >>
    /\ kstep = 0
    /\ gscale = NoGscale
    /\ last = NoLast
    /\ len0 = 0
    /\ completed = 0
    /\ yielded = << >>
    /\ proposals = 0
    /\ cleared = 0
    /\ call = NoCall

\* the locals of run_mcmc and of the generator are gone once the call is left
ClearFrame ==
    /\ args' = NoArgs
    /\ start' = << >>
    /\ pos' = << >>
    /\ lnpost' = LnZero
    /\ overlap' = << >>
    /\ it' = 0
    /\ pairs' = << >>
    /\ kstep' = 0
    /\ gscale' = NoGscale
    /\ last' = NoLast
    /\ len0' = 0
    /\ yielded' = << >>

\* ------------------------------------------------------- reset
reset ==
    /\ pc = "idle"
    /\ samples' = << >>
    /\ samples_lnp' = << >>
    /\ completed' = 0
    /\ cleared' = Len(samples)
    /\ UNCHANGED << pdfs, hyper, call, pc, frame, proposals >>

\* ------------------------------------------------------- run_mcmc
\* run_mcmc's starting position
ResolveStart(pos_init) ==
    IF pos_init = None
    THEN IF Len(samples) > 0 THEN samples[Len(samples)] ELSE Stacked
    ELSE Get(pos_init)

\* variant: the fallback is the first observation alone
SampleStartFirstRow(pos_init) ==
    IF pos_init = None THEN [b \in Bins |-> Nobs * pdfs[0][b]] ELSE Get(pos_init)

\* sample's starting position, from the pos_init it is called with
SampleStart(pos_init) == IF pos_init = None THEN Stacked ELSE Get(pos_init)

\* the overlap vector of a loglike_nz call made with a step on the grid
OnGrid(ov) == [o \in DOMAIN ov |-> ov[o][1]]
OffGrid(ov) == [o \in DOMAIN ov |-> << ov[o] >>]

\* variant: the log-posterior is carried over from the last recorded entry
InitialLnpostCarried(lnlike, lnprior) ==
    IF Len(samples_lnp) > 0 THEN samples_lnp[Len(samples_lnp)]
    ELSE LnAdd(lnlike, lnprior)

\* lnpost = lnlike + lnprior, before the first iteration
InitialLnpost(lnlike, lnprior) == LnAdd(lnlike, lnprior)

\* the runs considered request at most max proposals in all
Within(max, Niter, thin, mh_steps) == proposals + Niter * thin * mh_steps <= max

\* the call of run_mcmc up to the first pass of the generator's loop
run_mcmc(Niter, prior, pos_init, thin, mh_steps) ==
    /\ pc = "idle"
    /\ \E p0 \in { SampleStart(pos_init) } :
       \E ll \in { loglike_nz(Hist(p0), pdfs, None, None, None) } :
       \E lnprior \in { logprior_nz(Hist(p0), prior, PosDen) } :
           /\ args' = [Niter |-> Niter, pos_init |-> pos_init, thin |-> thin,
                       mh_steps |-> mh_steps, logprior_nz |-> prior]
           /\ start' = ResolveStart(pos_init)
           /\ len0' = Len(samples)
           /\ pos' = p0
           /\ overlap' = OnGrid(ll.overlap)
           /\ IF lnprior.k = "err"
              THEN /\ pc' = "raised"
                   /\ lnpost' = LnNaN
                   /\ UNCHANGED proposals
              ELSE /\ pc' = IF Niter = 0 THEN "done" ELSE "draw"
                   /\ lnpost' = InitialLnpost(ll.lnlike, lnprior)
                   /\ proposals' = proposals + Niter * thin * mh_steps
    /\ it' = 0
    /\ pairs' = << >>
    /\ kstep' = 0
    /\ gscale' = NoGscale
    /\ last' = NoLast
    /\ yielded' = << >>
    /\ UNCHANGED << pdfs, hyper, call, samples, samples_lnp, completed, cleared >>

\* the generator is exhausted and run_mcmc returns
Return ==
    /\ pc = "done"
    /\ pc' = "idle"
    /\ ClearFrame
    /\ UNCHANGED << pdfs, hyper, call, samples, samples_lnp, completed, proposals, cleared >>

\* an exception raised by the prior leaves run_mcmc
Propagate ==
    /\ pc = "raised"
    /\ pc' = "idle"
    /\ ClearFrame
    /\ UNCHANGED << pdfs, hyper, call, samples, samples_lnp, completed, proposals, cleared >>

\* ------------------------------------------------------- sample
\* variant: the two indices are drawn with replacement
AllPairsWithReplacement == Bins \X Bins

\* rstate.choice(Ndim, size=2, replace=False)
AllPairs == { pr \in Bins \X Bins : pr[1] # pr[2] }

\* pairs = [rstate.choice(Ndim, size=2, replace=False) for i in range(thin)]
DrawPairs ==
    /\ pc = "draw"
    /\ pairs' \in [1..args.thin -> AllPairs]
    /\ pc' = "pair"
    /\ UNCHANGED << pdfs, hyper, call, samples, samples_lnp, args, start, pos, lnpost,
                    overlap, it, kstep, gscale, last, len0, completed,
                    yielded, proposals, cleared >>

\* variant: both bins of the pair move up
BasisSameSign(pair) == [b \in Bins |-> IF b = pair[1] \/ b = pair[2] THEN 1 ELSE 0]

\* t = np.zeros_like(pos); t[pair] = (1, -1)
Basis(pair) == [b \in Bins |-> IF b = pair[1] THEN 1
                               ELSE IF b = pair[2] THEN -1 ELSE 0]

Min2(a, b) == IF a <= b THEN a ELSE b
Abs(a) == IF a < 0 THEN -a ELSE a

\* ------------------------------------------------ IEEE-754 double arithmetic
\* A natural number of any size is the sequence of its digits in base
\* LimbBase, lowest first, without leading zero digits; << >> is 0.
LimbBits == 13
LimbBase == 8192

RECURSIVE Pow2(_)
Pow2(k) == IF k = 0 THEN 1 ELSE 2 * Pow2(k - 1)

RECURSIVE BTrim(_)
BTrim(a) ==
    IF a = << >> THEN a
    ELSE IF a[Len(a)] = 0 THEN BTrim(SubSeq(a, 1, Len(a) - 1)) ELSE a

\* the digits of the number sum_n d[n] * LimbBase^(n-1) + c * LimbBase^(n0-1),
\* from digit n0 on, for integers d[n] whose sum is not negative
RECURSIVE BCarry(_, _, _)
BCarry(d, n, c) ==
    IF n > Len(d)
    THEN IF c = 0 THEN << >> ELSE << c % LimbBase >> \o BCarry(d, n, c \div LimbBase)
    ELSE << (d[n] + c) % LimbBase >> \o BCarry(d, n + 1, (d[n] + c) \div LimbBase)

BNat(n) == BTrim(BCarry(<< n >>, 1, 0))
BAdd(a, b) == BTrim(BCarry(PAdd(a, b), 1, 0))
\* a - b for a >= b
BSub(a, b) == BTrim(BCarry(PSub(a, b), 1, 0))
BMul(a, b) == IF a = << >> \/ b = << >> THEN << >> ELSE BTrim(BCarry(PMul(a, b), 1, 0))

\* -1, 0, 1 as a < b, a = b, a > b, deciding from digit n down
RECURSIVE BCmpFrom(_, _, _)
BCmpFrom(a, b, n) ==
    IF n = 0 THEN 0
    ELSE IF a[n] < b[n] THEN -1
    ELSE IF a[n] > b[n] THEN 1
    ELSE BCmpFrom(a, b, n - 1)
BCmp(a, b) ==
    IF Len(a) < Len(b) THEN -1
    ELSE IF Len(a) > Len(b) THEN 1
    ELSE BCmpFrom(a, b, Len(a))

\* number of binary digits
RECURSIVE BitsOf(_)
BitsOf(n) == IF n = 0 THEN 0 ELSE 1 + BitsOf(n \div 2)
BBits(a) == IF a = << >> THEN 0 ELSE (Len(a) - 1) * LimbBits + BitsOf(a[Len(a)])

\* a * 2^k
BShl(a, k) ==
    IF a = << >> THEN a
    ELSE [n \in 1..(k \div LimbBits) |-> 0]
         \o BCarry([n \in 1..Len(a) |-> a[n] * Pow2(k % LimbBits)], 1, 0)

\* floor(a / 2^k)
BShr(a, k) ==
    LET q == k \div LimbBits
        r == k % LimbBits
        at(n) == IF n <= Len(a) THEN a[n] ELSE 0
    IN  BTrim([n \in 1..PMax(Len(a) - q, 0) |->
                 (at(n + q) \div Pow2(r)) + (at(n + q + 1) % Pow2(r)) * Pow2(LimbBits - r)])

\* a mod 2^k is not 0
BLowBits(a, k) == BCmp(BShl(BShr(a, k), k), a) # 0

\* binary digit k of a, the lowest being digit 0
BBit(a, k) ==
    IF (k \div LimbBits) + 1 > Len(a) THEN 0
    ELSE (a[(k \div LimbBits) + 1] \div Pow2(k % LimbBits)) % 2

\* quotient and remainder of a by the small number d, from digit n down
RECURSIVE BDivFrom(_, _, _, _)
BDivFrom(a, d, n, r) ==
    IF n = 0 THEN [q |-> << >>, r |-> r]
    ELSE LET cur == r * LimbBase + a[n]
             low == BDivFrom(a, d, n - 1, cur % d)
         IN  [q |-> Append(low.q, cur \div d), r |-> low.r]
BDivSmall(a, d) ==
    LET res == BDivFrom(a, d, Len(a), 0)
    IN  [q |-> BTrim(res.q), r |-> res.r]

\* a double: s * m * 2^e with s = 1 or -1 and m of exactly MantBits binary
\* digits, or 0 (m = << >>). Subnormals, infinities and NaN do not arise from
\* the histograms considered
MantBits == 53
FlZero == [s |-> 1, m |-> << >>, e |-> 0]

\* the double nearest s * big * 2^e, ties to even; sticky says that the
\* number rounded is a little above big * 2^e
FlRound(s, big, e, sticky) ==
    IF big = << >> THEN FlZero
    ELSE LET nb == BBits(big)
         IN  IF nb <= MantBits
             THEN [s |-> s, m |-> BShl(big, MantBits - nb), e |-> e - (MantBits - nb)]
             ELSE LET k == nb - MantBits
                      q == BShr(big, k)
                      half == BBit(big, k - 1) = 1
                      rest == sticky \/ BLowBits(big, k - 1)
                      up == half /\ (rest \/ BBit(q, 0) = 1)
                      q1 == IF up THEN BAdd(q, << 1 >>) ELSE q
                  IN  IF BBits(q1) > MantBits
                      THEN [s |-> s, m |-> BShr(q1, 1), e |-> e + k + 1]
                      ELSE [s |-> s, m |-> q1, e |-> e + k]

\* the double of an integer
FlInt(n) == FlRound(IF n < 0 THEN -1 ELSE 1, BNat(Abs(n)), 0, FALSE)

\* the double nearest n / d, for an integer n and a small positive d: float
\* division of two integers held exactly, and the reading of a decimal literal
FlRatio(n, d) ==
    LET res == BDivSmall(BShl(BNat(Abs(n)), 6 * LimbBits), d)
    IN  FlRound(IF n < 0 THEN -1 ELSE 1, res.q, -(6 * LimbBits), res.r # 0)

\* a * b
FlMul(a, b) ==
    IF a.m = << >> \/ b.m = << >> THEN FlZero
    ELSE FlRound(a.s * b.s, BMul(a.m, b.m), a.e + b.e, FALSE)

FlNeg(a) == [a EXCEPT !.s = -a.s]
FlAbs(a) == [a EXCEPT !.s = 1]

\* a + b
FlAdd(a, b) ==
    IF a.m = << >> THEN b
    ELSE IF b.m = << >> THEN a
    ELSE LET e0 == Min2(a.e, b.e)
             x == BShl(a.m, a.e - e0)
             y == BShl(b.m, b.e - e0)
         IN  IF a.s = b.s THEN FlRound(a.s, BAdd(x, y), e0, FALSE)
             ELSE IF BCmp(x, y) = 0 THEN FlZero
             ELSE IF BCmp(x, y) > 0 THEN FlRound(a.s, BSub(x, y), e0, FALSE)
             ELSE FlRound(b.s, BSub(y, x), e0, FALSE)

FlSub(a, b) == FlAdd(a, FlNeg(b))

\* -1, 0, 1 as a < b, a = b, a > b
FlCmp(a, b) ==
    LET d == FlSub(a, b)
    IN  IF d.m = << >> THEN 0 ELSE d.s

\* np.min of a non-empty sequence of doubles
RECURSIVE FlMin(_)
FlMin(xs) ==
    IF Len(xs) = 1 THEN xs[1]
    ELSE LET rest == FlMin(Tail(xs))
         IN  IF FlCmp(xs[1], rest) <= 0 THEN xs[1] ELSE rest

\* a number below LimbBase
BSmall(a) == IF a = << >> THEN 0 ELSE a[1]

\* a - b in units in the last place of b, rounded towards 0, for two doubles
\* a few units apart
FlUlps(a, b) ==
    LET d == FlSub(a, b)
    IN  IF d.m = << >> THEN 0
        ELSE d.s * BSmall(BShr(BShl(d.m, d.e - Min2(d.e, b.e)), b.e - Min2(d.e, b.e)))

\* the doubles of the histogram p, whose component b is p[b] / PosDen
PosFl(p) == [b \in DOMAIN p |-> FlRatio(p[b], PosDen)]

\* np.min(np.append(pos[pair], 1. - pos[pair]))
MinFl(p, pair) ==
    FlMin(<< PosFl(p)[pair[1]], PosFl(p)[pair[2]],
             FlSub(FlInt(1), PosFl(p)[pair[1]]), FlSub(FlInt(1), PosFl(p)[pair[2]]) >>)

\* scale = 1e-4 * np.min(...)
ScaleFl(p, pair) == FlMul(FlRatio(1, ScaleDen), MinFl(p, pair))

\* abs(scale * 1e4)
CapFl(p, pair) == FlAbs(FlMul(ScaleFl(p, pair), FlInt(CapFactor)))

\* pos + s * t * scale / 2. in doubles; the division by 2 is exact
ProbeFl(p, pair, s) ==
    [b \in DOMAIN p |->
        IF b = pair[1]
        THEN FlAdd(PosFl(p)[b], FlMul(FlRatio(s, 2), ScaleFl(p, pair)))
        ELSE IF b = pair[2]
        THEN FlAdd(PosFl(p)[b], FlMul(FlRatio(-s, 2), ScaleFl(p, pair)))
        ELSE PosFl(p)[b]]

\* variant: only the distances to the upper boundary are taken
ScaleNumUpperOnly(p, pair) == Min2(PosDen - p[pair[1]], PosDen - p[pair[2]])

\* np.min(np.append(pos[pair], 1. - pos[pair])), in grid units;
\* scale is this number divided by ScaleDen
ScaleNum(p, pair) ==
    Min2(Min2(p[pair[1]], p[pair[2]]),
         Min2(PosDen - p[pair[1]], PosDen - p[pair[2]]))

\* variant: the probes are taken at twice the distance to the boundary
HalfScaleDouble(p, pair) == << 2 * ScaleNum(p, pair) >>

\* scale / 2.
HalfScale(p, pair) == << 0, ScaleNum(p, pair) >>

\* pos + s * t * scale / 2.
Probe(p, pair, s) ==
    [v |-> [b \in Bins |-> PAdd(<< p[b] >>,
                                PScale(s * Basis(pair)[b], HalfScale(p, pair)))],
     nanBins |-> {}]

\* the prior at a probe, and lnp1 (s = 1), lnp2 (s = -1)
ProbePrior(p, pair, s, prior) == logprior_nz(Probe(p, pair, s), prior, PosDen)
ProbeLnp(p, ov, pair, s, prior) ==
    LnAdd(loglike_nz(Hist(p), pdfs, Some(OffGrid(ov)), Some(pair),
                     Some(PScale(s, HalfScale(p, pair)))).lnlike,
          ProbePrior(p, pair, s, prior))

\* the terms np.log is applied to for a probe (line 617): overlap + perturb
ProbeTerms(p, ov, pair, s) ==
    loglike_nz(Hist(p), pdfs, Some(OffGrid(ov)), Some(pair),
               Some(PScale(s, HalfScale(p, pair)))).overlap

\* np.sum gives the two probes the same float: they add the same terms in
\* the same order, or there are at most two terms and they are the same
\* terms (a float sum of two terms does not depend on their order)
SameFloatSum(t1, t2) ==
    \/ t1 = t2
    \/ /\ Size(t1) = 2
       /\ t1[0] = t2[1]
       /\ t1[1] = t2[0]

\* lnp1 and lnp2 are the same floating-point computation: equal sums of logs,
\* and the prior taken at the same histogram or left at its default
SameFloat(p, ov, pair, prior) ==
    /\ SameFloatSum(ProbeTerms(p, ov, pair, 1), ProbeTerms(p, ov, pair, -1))
    /\ \/ prior.fn = "none"
       \/ Probe(p, pair, 1) = Probe(p, pair, -1)

\* grad = (lnp1 - lnp2) / scale, as one of "nan", "inf", "zero", "nonzero"
\* and "round". The code tests floats: two probes equal in exact arithmetic
\* give the float 0 when they are the same computation (same); when they
\* are not, the difference is 0 or a rounding residue ("round"), as the
\* rounding of the two sums falls
Grad(lnp1, lnp2, scaleNum, same) ==
    LET diff == IF lnp1.k = "nan" \/ lnp2.k = "nan" THEN "nan"
                ELSE IF lnp1.k = "ninf" /\ lnp2.k = "ninf" THEN "nan"
                ELSE IF lnp1.k = "ninf" \/ lnp2.k = "ninf" THEN "inf"
                ELSE IF PSign(PSub(lnp1.v, lnp2.v)) # 0 THEN "nonzero"
                ELSE IF same THEN "zero"
                ELSE "round"
    IN  IF scaleNum # 0 THEN diff
        ELSE IF diff = "zero" THEN "nan"
        ELSE IF diff = "nonzero" THEN "inf"
        ELSE IF diff = "round" THEN "nan"
        ELSE diff

\* the first n coefficients
PTrunc(q, n) == SubSeq(q, 1, Min2(Len(q), n))

\* 6 * exp(2 * e) to the third order in e: exp(2 * e) is exp(1e-4)
Exp2e == << 6, 12, 12, 8 >>

\* the smaller argument of min(abs(1. / grad), abs(scale * 1e4)) at line 346
\* for finite lnp1 # lnp2. abs(1. / grad) is abs(scale) / |lnp1 - lnp2|, so
\* it is the smaller one where |lnp1 - lnp2| > 1e-4 and abs(scale * 1e4)
\* where |lnp1 - lnp2| < 1e-4. The logarithms are carried by their arguments:
\* lnp1 - lnp2 > 1e-4 is lnp1.v > lnp2.v * exp(2 * e), decided by the lowest
\* order of e that differs. A difference to the third order of e is a
\* relative difference above 1e-9 between the two arguments of min, more
\* than the rounding of lnp1 - lnp2 makes; where there is none to that order
\* the rounding decides ("either")
Binding(lnp1, lnp2) ==
    LET up == PSign(PTrunc(PSub(PScale(6, lnp1.v), PMul(lnp2.v, Exp2e)), 4))
        dn == PSign(PTrunc(PSub(PScale(6, lnp2.v), PMul(lnp1.v, Exp2e)), 4))
    IN  IF up > 0 \/ dn > 0 THEN "1/grad"
        ELSE IF up < 0 /\ dn < 0 THEN "cap"
        ELSE "either"

\* gscale: k is "nan", "zero" (exactly 0) or "pos" (positive); cap is
\* abs(scale * 1e4) in grid units, in exact arithmetic (CapFl is the double);
\* is names the value: "scale" is abs(scale), from a grad of zero; "1/grad"
\* is abs(1. / grad) and "cap" is abs(scale * 1e4), whichever is the smaller,
\* "either" where they are within rounding of each other; "round" is
\* abs(scale) or abs(scale * 1e4), from a grad that is 0 or a rounding
\* residue, 1 / grad being huge if grad is not 0
Gscale(grad, scaleNum, bind) ==
    IF grad # "zero"
    THEN \* min(abs(1. / grad), abs(scale * 1e4)): Python's min keeps its
         \* first argument unless the second is smaller
         IF grad = "nan"
         THEN [k |-> "nan", cap |-> Abs(scaleNum), grad |-> grad, is |-> "1/grad"]
         ELSE IF grad = "inf"
         THEN [k |-> "zero", cap |-> Abs(scaleNum), grad |-> grad, is |-> "1/grad"]
         ELSE [k |-> IF scaleNum = 0 THEN "zero" ELSE "pos",
               cap |-> Abs(scaleNum), grad |-> grad,
               is |-> IF scaleNum = 0 THEN "cap"
                      ELSE IF grad = "round" THEN "round" ELSE bind]
    ELSE [k |-> IF scaleNum = 0 THEN "zero" ELSE "pos",
          cap |-> Abs(scaleNum), grad |-> grad, is |-> "scale"]

\* gscale for a pair at the state st (lines 333-348)
PairGscale(st, pair, prior) ==
    LET lnp1 == ProbeLnp(st.pos, st.overlap, pair, 1, prior)
        lnp2 == ProbeLnp(st.pos, st.overlap, pair, -1, prior)
    IN  Gscale(Grad(lnp1, lnp2, ScaleNum(st.pos, pair),
                    \/ ScaleNum(st.pos, pair) = 0
                    \/ SameFloat(st.pos, st.overlap, pair, prior)),
               ScaleNum(st.pos, pair),
               IF lnp1.k = "fin" /\ lnp2.k = "fin" THEN Binding(lnp1, lnp2)
               ELSE "1/grad")

\* lines 329-348: basis vector, scale, numerical gradient, gscale
GibbsPair ==
    /\ pc = "pair"
    /\ \E pr1 \in { ProbePrior(pos, Head(pairs), 1, args.logprior_nz) } :
       \E pr2 \in { ProbePrior(pos, Head(pairs), -1, args.logprior_nz) } :
         IF pr1.k = "err" \/ pr2.k = "err"
         THEN /\ pc' = "raised"
              /\ UNCHANGED gscale
         ELSE /\ pc' = "mh"
              /\ gscale' = PairGscale([pos |-> pos, overlap |-> overlap],
                                      Head(pairs), args.logprior_nz)
    /\ \E a1 \in { loglike_nzArg(Hist(pos), pdfs, Some(OffGrid(overlap)), Some(Head(pairs)),
                                  Some(HalfScale(pos, Head(pairs)))) } :
       \E a2 \in { loglike_nzArg(Hist(pos), pdfs, a1, Some(Head(pairs)),
                                  Some(PScale(-1, HalfScale(pos, Head(pairs))))) } :
         overlap' = OnGrid(Get(a2))
    /\ kstep' = 0
    /\ last' = NoLast
    /\ UNCHANGED << pdfs, hyper, call, samples, samples_lnp, args, start, pos, lnpost,
                    it, pairs, len0, completed, yielded, proposals, cleared >>

\* z = rstate.randn() * gscale, in grid units
ZDraws(g) ==
    IF g.k = "pos" THEN (-MaxStep)..MaxStep ELSE { 0 }

\* pos_new = pos + (t * z)
PosNew(p, pair, z, znan) ==
    IF znan THEN [v |-> Hist(p).v, nanBins |-> Bins]
    ELSE Hist([b \in Bins |-> p[b] + Basis(pair)[b] * z])

\* variant: a candidate at -inf passes the test
AcceptNInf(new, cur, e, rnd) ==
    IF new.k = "fin" /\ cur.k = "fin"
    THEN \E d \in { PSign(PSub(PScale(UDen, new.v), PScale(e[1], cur.v))) } :
            d > 0 \/ (d = 0 /\ (e[2] = 1 \/ (e[2] = 0 /\ rnd > 0)))
    ELSE new.k # "nan"

\* variant: the sign of the exponential draw is lost, e < lnpost_new - lnpost
AcceptSignLost(new, cur, e, rnd) ==
    IF new.k = "fin" /\ cur.k = "fin"
    THEN \E d \in { PSign(PSub(PScale(e[1], new.v), PScale(UDen, cur.v))) } :
            d > 0 \/ (d = 0 /\ (e[2] = -1 \/ (e[2] = 0 /\ rnd > 0)))
    ELSE new.k = "fin" /\ cur.k = "ninf"

\* the draws of rstate.exponential(), floats e >= 0: << un, side >> is the
\* number ln(UDen / un) itself (side 0), which is a float for un = UDen
\* only, where it is 0.0; or a float a hair above it (side 1) or below it
\* (side -1), by more than the rounding error of a difference of
\* log-posteriors
EDraws ==
    { e \in (1..UDen) \X { -1, 0, 1 } :
        IF e[1] = UDen THEN e[2] \in { 0, 1 } ELSE e[2] \in { -1, 1 } }

\* lnpost_new and lnpost are the same floating-point computation: the sums of
\* the logs of the two overlap vectors are the same float, and the prior is
\* taken at the same histogram or left at its default
SameLnpost(ov, ov_new, p, p_new, prior) ==
    /\ SameFloatSum(OffGrid(ov), ov_new)
    /\ \/ prior.fn = "none"
       \/ p_new = Hist(p)

\* the sign of the float lnpost_new - lnpost where the two are equal in exact
\* arithmetic and the draw is 0.0: 0 when they are the same computation,
\* else as the rounding of the two sums falls. Elsewhere it decides nothing
Roundings(new, cur, e, same) ==
    IF /\ new.k = "fin" /\ cur.k = "fin"
       /\ e[2] = 0
       /\ PSign(PSub(PScale(UDen, new.v), PScale(e[1], cur.v))) = 0
       /\ ~same
    THEN { -1, 0, 1 }
    ELSE { 0 }

\* -rstate.exponential() < lnpost_new - lnpost. Where lnpost_new - lnpost is
\* ln(un / UDen) in exact arithmetic, the side of the draw decides, and for
\* the draw 0.0 the sign rnd of the float difference: -0.0 < 0.0 is false
Accept(new, cur, e, rnd) ==
    IF new.k = "fin" /\ cur.k = "fin"
    THEN \E d \in { PSign(PSub(PScale(UDen, new.v), PScale(e[1], cur.v))) } :
            d > 0 \/ (d = 0 /\ (e[2] = 1 \/ (e[2] = 0 /\ rnd > 0)))
    ELSE new.k = "fin" /\ cur.k = "ninf"

\* variant: the prior of the candidate is left out
CandidateLnpostNoPrior(lnlike_new, lnprior_new) == lnlike_new

\* lnpost_new = lnlike_new + lnprior_new
CandidateLnpost(lnlike_new, lnprior_new) == LnAdd(lnlike_new, lnprior_new)

\* lines 353-366: one Metropolis-Hastings proposal on the current pair, for
\* the draws z and e
MHStepWith(z, e) ==
    /\ \E pos_new \in { PosNew(pos, Head(pairs), z, gscale.k = "nan") } :
       \E ll \in { loglike_nz(pos_new, pdfs, Some(OffGrid(overlap)),
                              Some(Head(pairs)), Some(<< z >>)) } :
       \E lnprior_new \in { logprior_nz(pos_new, args.logprior_nz, PosDen) } :
       \E lnpost_new \in { CandidateLnpost(ll.lnlike, lnprior_new) } :
       \E rnd \in Roundings(lnpost_new, lnpost, e,
                            SameLnpost(overlap, ll.overlap, pos, pos_new,
                                       args.logprior_nz)) :
       \E acc \in { Accept(lnpost_new, lnpost, e, rnd) } :
       \E arg \in { loglike_nzArg(pos_new, pdfs, Some(OffGrid(overlap)),
                                   Some(Head(pairs)), Some(<< z >>)) } :
         LET cand == [b \in Bins |-> pos_new.v[b][1]]
         IN  IF lnprior_new.k = "err"
             THEN /\ pc' = "raised"
                  /\ UNCHANGED << pos, lnpost, overlap, last, kstep, pairs >>
             ELSE /\ pos' = IF acc THEN cand ELSE pos
                  /\ lnpost' = IF acc THEN lnpost_new ELSE lnpost
                  /\ overlap' = IF acc THEN OnGrid(ll.overlap) ELSE OnGrid(Get(arg))
                  /\ last' = [made |-> TRUE, pair |-> Head(pairs),
                              znan |-> gscale.k = "nan", pos |-> pos,
                              lnpost |-> lnpost, overlap |-> overlap,
                              pos_new |-> cand, lnpost_new |-> lnpost_new,
                              overlap_new |-> OnGrid(ll.overlap),
                              accepted |-> acc, e |-> e, rnd |-> rnd]
                  /\ IF kstep + 1 < args.mh_steps
                     THEN /\ kstep' = kstep + 1
                          /\ pc' = "mh"
                          /\ UNCHANGED pairs
                     ELSE /\ kstep' = 0
                          /\ pairs' = Tail(pairs)
                          /\ pc' = IF Len(pairs) > 1 THEN "pair" ELSE "yield"
    /\ UNCHANGED << pdfs, hyper, call, samples, samples_lnp, args, start, it, gscale, len0,
                    completed, yielded, proposals, cleared >>

\* lines 351-366: the proposal, with z and the acceptance draw from rstate
MHStep ==
    /\ pc = "mh"
    /\ \E z \in ZDraws(gscale), e \in EDraws : MHStepWith(z, e)

\* variant: the entry appended is the array the generator keeps writing to,
\* so every entry reads as the newest
RecordShared(trace, x) == [n \in 1..(Len(trace) + 1) |-> x]

\* variant: the new entry is put in front
RecordFront(trace, x) == << x >> \o trace

\* self.samples.append(np.array(x)); self.samples_lnp.append(lnp)
Record(trace, x) == Append(trace, x)

\* line 369 and lines 254-255: the generator yields (pos, lnpost) and
\* run_mcmc appends them to the trace
Yield ==
    /\ pc = "yield"
    /\ samples' = Record(samples, pos)
    /\ samples_lnp' = Record(samples_lnp, lnpost)
    /\ yielded' = Append(yielded, << pos, lnpost >>)
    /\ completed' = completed + 1
    /\ it' = it + 1
    /\ pc' = IF it + 1 < args.Niter THEN "draw" ELSE "done"
    /\ last' = NoLast
    /\ UNCHANGED << pdfs, hyper, call, args, start, pos, lnpost, overlap, pairs, kstep,
                    gscale, len0, proposals, cleared >>

Next ==
    \/ reset /\ UNCHANGED << tape, caller, duo >>
    \/ /\ \E Niter \in 0..MaxNiter, pos_init \in PosInits :
            /\ Within(MaxProposals, Niter, hyper.thin, hyper.mh_steps)
            /\ run_mcmc(Niter, hyper.logprior_nz, pos_init, hyper.thin, hyper.mh_steps)
       /\ UNCHANGED << tape, caller, duo >>
    \/ DrawPairs /\ UNCHANGED << tape, caller, duo >>
    \/ GibbsPair /\ UNCHANGED << tape, caller, duo >>
    \/ MHStep /\ UNCHANGED << tape, caller, duo >>
    \/ Yield /\ UNCHANGED << tape, caller, duo >>
    \/ Return /\ UNCHANGED << tape, caller, duo >>
    \/ Propagate /\ UNCHANGED << tape, caller, duo >>

Spec == Init /\ [][Next]_vars

\* ------------------------------------- runs with the draws of rstate observed
\* the pairs drawn for an outer iteration are observed
DrawPairsObserved ==
    /\ DrawPairs
    /\ tape' = [tape EXCEPT !.pairs = Append(@, pairs')]
    /\ UNCHANGED << caller, duo >>

\* line 317: pos = pos_init makes the local pos the caller's array
BindStart(pos_init) ==
    [pos_init |-> pos_init, pos_is |-> IF pos_init = None THEN "own" ELSE "pos_init"]

\* variant: the candidate is written into the array pos refers to
StoreAcceptedInPlace(c, cand) ==
    IF c.pos_is = "pos_init" THEN [c EXCEPT !.pos_init = Some(cand)] ELSE c

\* line 366: pos = pos_new makes the local pos the candidate, an array of
\* its own built at line 355
StoreAccepted(c, cand) == [c EXCEPT !.pos_is = "own"]

\* z, the acceptance draw and the rounding of a proposal are observed, and the caller's
\* array after the proposal
MHStepObserved ==
    /\ pc = "mh"
    /\ \E z \in ZDraws(gscale), e \in EDraws :
         /\ MHStepWith(z, e)
         /\ tape' = [tape EXCEPT !.steps = Append(@, << z, e, last'.rnd >>),
                                 !.on = Append(@, Head(pairs))]
         /\ caller' = IF pc' # "raised" /\ last'.accepted
                       THEN StoreAccepted(caller, pos')
                       ELSE caller
    /\ UNCHANGED duo

\* the observed runs start from the stacked table, from a valid histogram or
\* from one off the simplex
ObservedStarts == { None, Some(Vec(<<1, 3>>)), Some(Vec(<<1, 1>>)) }

InitObserved ==
    /\ Init
    /\ pdfs = Mat(<< <<2, 0>>, <<1, 1>> >>)

NextObserved ==
    \/ reset /\ UNCHANGED << tape, caller, duo >>
    \/ /\ \E Niter \in 0..MaxNiter, pos_init \in ObservedStarts :
            /\ Within(MaxProposals, Niter, hyper.thin, hyper.mh_steps)
            /\ run_mcmc(Niter, hyper.logprior_nz, pos_init, hyper.thin, hyper.mh_steps)
       /\ tape' = NoTape
       /\ caller' = BindStart(args'.pos_init)
       /\ UNCHANGED duo
    \/ DrawPairsObserved
    \/ GibbsPair /\ UNCHANGED << tape, caller, duo >>
    \/ MHStepObserved
    \/ Yield /\ UNCHANGED << tape, caller, duo >>
    \/ Return /\ tape' = NoTape /\ caller' = NoCaller /\ UNCHANGED duo
    \/ Propagate /\ tape' = NoTape /\ caller' = NoCaller /\ UNCHANGED duo

SpecObserved == InitObserved /\ [][NextObserved]_vars

\* ------------------- runs with the pairs drawn and the pair of each proposal observed
\* the pair a proposal is made on is observed
MHStepShape ==
    /\ MHStep
    /\ tape' = [tape EXCEPT !.on = Append(@, Head(pairs))]
    /\ UNCHANGED << caller, duo >>

NextShape ==
    \/ reset /\ UNCHANGED << tape, caller, duo >>
    \/ /\ \E Niter \in 0..MaxNiter, pos_init \in ObservedStarts :
            /\ Within(ShapeProposals, Niter, hyper.thin, hyper.mh_steps)
            /\ run_mcmc(Niter, hyper.logprior_nz, pos_init, hyper.thin, hyper.mh_steps)
       /\ tape' = NoTape
       /\ UNCHANGED << caller, duo >>
    \/ DrawPairsObserved
    \/ GibbsPair /\ UNCHANGED << tape, caller, duo >>
    \/ MHStepShape
    \/ Yield /\ UNCHANGED << tape, caller, duo >>
    \/ Return /\ tape' = NoTape /\ UNCHANGED << caller, duo >>
    \/ Propagate /\ tape' = NoTape /\ UNCHANGED << caller, duo >>

SpecShape == InitObserved /\ [][NextShape]_vars

\* the generator as a function of its arguments and of the draws.
\* The state after one proposal (lines 353-366) made from the state st
MHOutcome(st, pair, gs, step, prior) ==
    LET pos_new == PosNew(st.pos, pair, step[1], gs.k = "nan")
        ll == loglike_nz(pos_new, pdfs, Some(OffGrid(st.overlap)),
                         Some(pair), Some(<< step[1] >>))
        lnpost_new == LnAdd(ll.lnlike, logprior_nz(pos_new, prior, PosDen))
    IN  IF Accept(lnpost_new, st.lnpost, step[2], step[3])
        THEN [pos |-> [b \in Bins |-> pos_new.v[b][1]],
              lnpost |-> lnpost_new,
              overlap |-> OnGrid(ll.overlap)]
        ELSE st

\* the element of a singleton
Only(S) == CHOOSE x \in S : TRUE

\* the Metropolis-Hastings loop of one pair (lines 351-366)
RECURSIVE ReplayMH(_, _, _, _, _)
ReplayMH(st, pair, gs, steps, prior) ==
    IF steps = << >> THEN st
    ELSE Only({ ReplayMH(nxt, pair, gs, Tail(steps), prior) :
                  nxt \in { MHOutcome(st, pair, gs, Head(steps), prior) } })

\* the loop over the pairs of one outer iteration (lines 328-366)
RECURSIVE ReplayPairs(_, _, _, _, _)
ReplayPairs(st, prs, steps, prior, mh_steps) ==
    IF prs = << >> THEN st
    ELSE Only({ ReplayPairs(nxt, Tail(prs), SubSeq(steps, mh_steps + 1, Len(steps)),
                            prior, mh_steps) :
                  nxt \in { ReplayMH(st, Head(prs), gs, SubSeq(steps, 1, mh_steps),
                                     prior) :
                              gs \in { PairGscale(st, Head(prs), prior) } } })

\* the pairs (pos, lnpost) yielded by outer iterations n..upto (lines 323-369)
RECURSIVE ReplayRun(_, _, _, _, _)
ReplayRun(st, n, upto, tp, a) ==
    IF n > upto THEN << >>
    ELSE Only({ << << nxt.pos, nxt.lnpost >> >> \o ReplayRun(nxt, n + 1, upto, tp, a) :
                  nxt \in { ReplayPairs(st, tp.pairs[n],
                                        SubSeq(tp.steps,
                                               (n - 1) * a.thin * a.mh_steps + 1,
                                               n * a.thin * a.mh_steps),
                                        a.logprior_nz, a.mh_steps) } })

\* ------------------------------------------- loglike_nz called directly
sampler == << samples, samples_lnp, pc, args, start, pos, lnpost, overlap, it,
              pairs, kstep, gscale, last, len0, completed, yielded, proposals,
              cleared, tape, caller, duo >>

\* histograms with components in -1..MaxComp grid units, possibly with a NaN
LLHists ==
    { [v |-> Hist(w).v, nanBins |-> nb] :
        w \in [Bins -> (-1)..MaxComp], nb \in { {}, {0} } }

\* the histogram with bin i increased by d and bin j decreased by d
Perturbed(nz, pair, d) ==
    [v |-> [b \in DOMAIN nz.v |-> PAdd(nz.v[b], << Basis(pair)[b] * d >>)],
     nanBins |-> nz.nanBins]

InitLL ==
    /\ tape = NoTape
    /\ caller = NoCaller
    /\ duo = NoDuo
    /\ pdfs \in PdfTables
    /\ hyper = [logprior_nz |-> NoPrior, thin |-> 1, mh_steps |-> 1]
    /\ samples = << >>
    /\ samples_lnp = << >>
    /\ pc = "idle"
    /\ args = NoArgs
    /\ start = << >>
    /\ pos = << >>
    /\ lnpost = LnZero
    /\ overlap = << >>
    /\ it = 0
    /\ pairs = << >>
    /\ kstep = 0
    /\ gscale = NoGscale
    /\ last = NoLast
    /\ len0 = 0
    /\ completed = 0
    /\ yielded = << >>
    /\ proposals = 0
    /\ cleared = 0
    /\ \E nz \in LLHists, pair \in AllPairs, d \in (-MaxStep)..MaxStep :
         call = [nz |-> nz, pair |-> pair, d |-> d, inc |-> None, full |-> None,
               any |-> None, lp |-> None]

\* the call made for a probe (lines 335-340): the unperturbed histogram, the
\* overlap cached for it (line 318), the pair and the step
LLIncremental ==
    /\ call.inc = None
    /\ LET cached == loglike_nz(call.nz, pdfs, None, None, None).overlap
       IN  call' = [call EXCEPT !.inc = Some(loglike_nz(call.nz, pdfs, Some(cached),
                                                    Some(call.pair), Some(<< call.d >>)))]
    /\ UNCHANGED << pdfs, hyper, sampler >>

\* the call from scratch on the perturbed histogram
LLScratch ==
    /\ call.full = None
    /\ call' = [call EXCEPT !.full = Some(loglike_nz(Perturbed(call.nz, call.pair, call.d),
                                                pdfs, None, None, None))]
    /\ UNCHANGED << pdfs, hyper, sampler >>

\* a call with any combination of the optional arguments
LLAny ==
    /\ call.any = None
    /\ \E ov \in { None, Some([o \in DOMAIN pdfs |-> << 1 + o >>]) },
          pair \in { None, Some(call.pair) },
          pair_step \in { None, Some(<< call.d >>) } :
         call' = [call EXCEPT !.any = Some([overlap |-> ov, pair |-> pair,
                                        pair_step |-> pair_step,
                                        res |-> loglike_nz(call.nz, pdfs, ov, pair,
                                                           pair_step)])]
    /\ UNCHANGED << pdfs, hyper, sampler >>

NextLL == LLIncremental \/ LLScratch \/ LLAny

SpecLL == InitLL /\ [][NextLL]_vars

\* --------------------------------------------- logprior called directly
\* no sampler call is in progress and none was made
SamplerUnused ==
    /\ tape = NoTape
    /\ caller = NoCaller
    /\ hyper = [logprior_nz |-> NoPrior, thin |-> 1, mh_steps |-> 1]
    /\ samples = << >>
    /\ samples_lnp = << >>
    /\ pc = "idle"
    /\ args = NoArgs
    /\ start = << >>
    /\ pos = << >>
    /\ lnpost = LnZero
    /\ overlap = << >>
    /\ it = 0
    /\ pairs = << >>
    /\ kstep = 0
    /\ gscale = NoGscale
    /\ last = NoLast
    /\ len0 = 0
    /\ completed = 0
    /\ yielded = << >>
    /\ proposals = 0
    /\ cleared = 0

\* the values of alpha and counts_ref a direct call is given
Alphas == { None, Some(Vec(<<1, 1>>)), Some(Vec(<<2, 1>>)) }
CountsRefs == { None, Some(Vec(<<1, 0>>)) }

InitLP ==
    /\ SamplerUnused
    /\ duo = NoDuo
    /\ pdfs \in PdfTables
    /\ \E nz \in LLHists :
         call = [NoCall EXCEPT !.nz = nz]

\* logprior(x, alpha, counts_ref) on the histogram of the call
LPCall ==
    /\ call.lp = None
    /\ \E alpha \in Alphas, counts_ref \in CountsRefs :
         call' = [call EXCEPT !.lp = Some([alpha |-> alpha, counts_ref |-> counts_ref,
                                           res |-> logprior(call.nz, alpha, counts_ref,
                                                            PosDen)])]
    /\ UNCHANGED << pdfs, hyper, sampler >>

NextLP == LPCall

SpecLP == InitLP /\ [][NextLP]_vars

\* ------------------------------------ runs started at a histogram with a zero bin
\* a table whose rows overlap every bin, one with a row on a single bin, and
\* one of three bins, where a pair can leave a zero bin out
ZeroTables == { Mat(<< <<1, 1>>, <<1, 1>> >>),
                Mat(<< <<2, 0>>, <<1, 1>> >>),
                Mat(<< <<1, 2, 1>> >>) }

\* pos_init arguments. Two bins: bin 0 is zero, bin 1 is 1 (on the simplex),
\* 1/2, or 5/4 (above 1); and a histogram without a zero bin. Three bins:
\* bin 0 is zero and the others are 1/2 each (on the simplex) or 3/4 each
\* (in the unit box, off the simplex); and a histogram without a zero bin
ZeroStarts ==
    IF Ndim = 2
    THEN { Some(Vec(<<0, 4>>)), Some(Vec(<<0, 2>>)), Some(Vec(<<0, 5>>)),
           Some(Vec(<<1, 3>>)) }
    ELSE { Some(Vec(<<0, 2, 2>>)), Some(Vec(<<0, 3, 3>>)), Some(Vec(<<1, 2, 1>>)) }

InitZero ==
    /\ tape = NoTape
    /\ caller = NoCaller
    /\ duo = NoDuo
    /\ call = NoCall
    /\ SamplerUnused
    /\ pdfs \in ZeroTables

\* the calls a program makes on a sampler, with the starts above; the prior
\* is the default or the Dirichlet one
NextZero ==
    \/ reset /\ UNCHANGED << tape, caller, duo >>
    \/ /\ \E Niter \in 0..MaxNiter, pos_init \in ZeroStarts, prior \in Priors :
            /\ Within(MaxProposals, Niter, hyper.thin, hyper.mh_steps)
            /\ run_mcmc(Niter, prior, pos_init, hyper.thin, hyper.mh_steps)
       /\ UNCHANGED << tape, caller, duo >>
    \/ DrawPairs /\ UNCHANGED << tape, caller, duo >>
    \/ GibbsPair /\ UNCHANGED << tape, caller, duo >>
    \/ MHStep /\ UNCHANGED << tape, caller, duo >>
    \/ Yield /\ UNCHANGED << tape, caller, duo >>
    \/ Return /\ UNCHANGED << tape, caller, duo >>
    \/ Propagate /\ UNCHANGED << tape, caller, duo >>

SpecZero == InitZero /\ [][NextZero]_vars

\* ------------------------------------ runs on histograms of thirds and sixths
\* tables whose entries sum to 6, 3 and 4: the grid unit of a histogram is
\* 1/6, 1/3 or 1/4
FineTables == { Mat(<< <<2, 0>>, <<1, 1>>, <<1, 1>> >>),
                Mat(<< <<2, 1>> >>),
                Mat(<< <<3, 1>> >>) }

\* pos_init arguments: None and every histogram of the grid with its
\* components in [0, 1]
FineStarts == { None } \cup { Some(q) : q \in [Bins -> 0..PosDen] }

InitFine ==
    /\ tape = NoTape
    /\ caller = NoCaller
    /\ duo = NoDuo
    /\ call = NoCall
    /\ SamplerUnused
    /\ pdfs \in FineTables

NextFine ==
    \/ reset /\ UNCHANGED << tape, caller, duo >>
    \/ /\ \E Niter \in 0..MaxNiter, pos_init \in FineStarts, prior \in Priors :
            /\ Within(FineProposals, Niter, hyper.thin, hyper.mh_steps)
            /\ run_mcmc(Niter, prior, pos_init, hyper.thin, hyper.mh_steps)
       /\ UNCHANGED << tape, caller, duo >>
    \/ DrawPairs /\ UNCHANGED << tape, caller, duo >>
    \/ GibbsPair /\ UNCHANGED << tape, caller, duo >>
    \/ MHStep /\ UNCHANGED << tape, caller, duo >>
    \/ Yield /\ UNCHANGED << tape, caller, duo >>
    \/ Return /\ UNCHANGED << tape, caller, duo >>
    \/ Propagate /\ UNCHANGED << tape, caller, duo >>

SpecFine == InitFine /\ [][NextFine]_vars

\* ------------------------------- two instances, their generators interleaved
\* outer iterations each instance is stepped through
DuoIters == 2

\* outer iterations the two instances are stepped through together
DuoSteps == 3

Insts == { "A", "B" }

\* the standard normal draws rstate.randn() hands out
DuoNormals == { -1, 0, 1 }

\* what a random source hands out during one outer iteration with thin = 1
\* and mh_steps = 1: the pair (line 325), the normal draw (line 353) and the
\* exponential draw (line 365)
DuoBlocks == AllPairs \X DuoNormals \X EDraws

\* lines 305-306: the source an instance draws from. With rstate=None it is
\* the module np.random, the same object for every instance of the process
Src(i) == IF duo.rstate = "own" THEN i ELSE "np.random"
Sources == Insts \cup { "np.random" }

\* lines 313-320: the state a generator starts from
DuoStart(pos_init) ==
    Only({ [pos |-> p0,
            lnpost |-> InitialLnpost(ll.lnlike, logprior_nz(Hist(p0), NoPrior, PosDen)),
            overlap |-> OnGrid(ll.overlap)] :
             ll \in { loglike_nz(Hist(p0), pdfs, None, None, None) :
                        p0 \in { SampleStart(pos_init) } },
             p0 \in { SampleStart(pos_init) } })

\* gscale in grid units on the table of InitDuo with the default prior.
\* The log-posterior is ln(1/4 + pos[0]/2) for pos on the simplex, so grad is
\* never 0 and 1 / |grad| is 1/2 + pos[0] within the error of the finite
\* difference, above abs(scale * 1e4) = min(pos[0], pos[1]) <= 1/2: the min
\* of line 346 is its second argument
DuoGscale(gs) == IF gs.k = "pos" THEN gs.cap ELSE 0

\* z = rstate.randn() * gscale, in grid units: the step a draw gives
\* depends on the gscale of the instance that reads it
ZScaled(gs, r) == r * DuoGscale(gs)

\* lines 323-369: one outer iteration from the state st on the draws of blk.
\* On the table of InitDuo a candidate with the log-posterior of the state
\* is the state, the same computation: the float difference is 0.0
DuoIteration(st, blk) ==
    Only({ MHOutcome(st, blk[1], gs, << ZScaled(gs, blk[2]), blk[3], 0 >>, NoPrior) :
             gs \in { PairGscale(st, blk[1], NoPrior) } })

\* the two instances are built on tables of their own, of equal content:
\* one observation, the histogram (3/4, 1/4)
InitDuo ==
    /\ SamplerUnused
    /\ call = NoCall
    /\ pdfs = Mat(<< <<3, 1>> >>)
    /\ \E rs \in { "own", "default" }, pb \in { None, Some(Vec(<<1, 3>>)) } :
         duo = [rstate |-> rs,
                stream |-> [s \in Sources |-> << >>],
                inst |-> [i \in Insts |->
                            [pos_init |-> IF i = "A" THEN None ELSE pb,
                             st |-> DuoStart(IF i = "A" THEN None ELSE pb),
                             trace |-> << >>]]]

\* next() on the generator of instance i: the draws come from the source
\* of the instance, which moves on
DuoStep(i) ==
    /\ duo.rstate # "none"
    /\ Len(duo.inst[i].trace) < DuoIters
    /\ Len(duo.inst["A"].trace) + Len(duo.inst["B"].trace) < DuoSteps
    /\ \E blk \in DuoBlocks :
       \E nxt \in { DuoIteration(duo.inst[i].st, blk) } :
         duo' = [duo EXCEPT !.stream[Src(i)] = Append(@, blk),
                            !.inst[i].st = nxt,
                            !.inst[i].trace = Append(@, << nxt.pos, nxt.lnpost >>)]
    /\ UNCHANGED << pdfs, hyper, call, samples, samples_lnp, pc, frame, completed,
                    proposals, cleared, tape, caller >>

NextDuo == DuoStep("A") \/ DuoStep("B")

SpecDuo == InitDuo /\ [][NextDuo]_vars

\* what instance i yields in n outer iterations when it is the only reader
\* of its source
RECURSIVE DuoReplay(_, _)
DuoReplay(st, blks) ==
    IF blks = << >> THEN << >>
    ELSE Only({ << << nxt.pos, nxt.lnpost >> >> \o DuoReplay(nxt, Tail(blks)) :
                  nxt \in { DuoIteration(st, Head(blks)) } })
DuoAlone(i, n) ==
    DuoReplay(DuoStart(duo.inst[i].pos_init), SubSeq(duo.stream[Src(i)], 1, n))

TypeOK ==
    /\ pc \in {"idle", "draw", "pair", "mh", "yield", "done", "raised"}
    /\ Len(samples) = Len(samples_lnp)

\* ------------------------------------------------------- properties
InRun == pc \in {"draw", "pair", "mh", "yield", "done"}
HasNegative(p) == \E b \in DOMAIN p : p[b] < 0
OnSimplex(p) == Sum(p) = PosDen

\* the position and log-posterior the run in progress started from
Start0 == SampleStart(args.pos_init)
Lnpost0 == LnAdd(loglike_nz(Hist(Start0), pdfs, None, None, None).lnlike,
                 logprior_nz(Hist(Start0), args.logprior_nz, PosDen))

\* the state the generator starts from (lines 313-320), from the arguments
ReplayStart ==
    [pos |-> Start0, lnpost |-> Lnpost0,
     overlap |-> OnGrid(loglike_nz(Hist(Start0), pdfs, None, None, None).overlap)]

\* C1: a run called with pos_init=None on a sampler whose trace is not empty
\* starts sampling from the last recorded sample: when its first pairs are
\* about to be drawn, the working histogram is that sample.
C1_StartsFromLastSample ==
    (pc = "draw" /\ it = 0 /\ args.pos_init = None /\ len0 > 0)
        => pos = samples[len0]

\* C2: in a run started from a histogram that sums to 1, the working
\* histogram sums to 1 after any sequence of proposals, and so does every
\* candidate and every histogram the run has recorded.
C2_SimplexSum ==
    (InRun /\ OnSimplex(Start0))
        => /\ OnSimplex(pos)
           /\ \A n \in 1..Len(yielded) : OnSimplex(samples[len0 + n])
           /\ (last.made /\ ~last.znan) => OnSimplex(last.pos_new)

C2_Witness ==
    /\ pc = "done"
    /\ OnSimplex(Start0)
    /\ Len(yielded) = 2
    /\ samples[len0 + 1] # Start0
    /\ samples[len0 + 2] = Start0

\* C4: a candidate with a negative component, proposed from a state with a
\* finite log-posterior, is rejected whatever the acceptance draw: the
\* working histogram, log-posterior and overlap stay as they were.
C4_InvalidRejected ==
    (last.made /\ ~last.znan /\ last.lnpost.k = "fin" /\ HasNegative(last.pos_new))
        => /\ ~last.accepted
           /\ pos = last.pos
           /\ lnpost = last.lnpost
           /\ overlap = last.overlap

C4_Witness ==
    /\ last.made /\ ~last.znan
    /\ last.lnpost.k = "fin"
    /\ HasNegative(last.pos_new)
    /\ ~HasNegative(last.pos)
    /\ pos = last.pos

\* C6: samples and samples_lnp have the same length, the number of outer
\* iterations completed since the last reset; during a run they hold, after
\* the len0 earlier entries, the pairs yielded so far in order; and a run
\* that returns has added exactly Niter entries.
C6_TraceAccounting ==
    /\ Len(samples) = Len(samples_lnp)
    /\ Len(samples) = completed
    /\ (InRun \/ pc = "raised")
          => /\ Len(samples) = len0 + it
             /\ Len(yielded) = it
             /\ \A n \in 1..it : /\ samples[len0 + n] = yielded[n][1]
                                 /\ samples_lnp[len0 + n] = yielded[n][2]
    /\ pc = "done" => Len(samples) = len0 + args.Niter

C6_Witness ==
    /\ pc = "done"
    /\ args.Niter = 2
    /\ len0 = 1
    /\ Len(samples) = 3
    /\ samples[2] # samples[3]

\* C7: after reset both trace sequences are empty, and a run called with an
\* empty trace and pos_init=None starts from the column sums of the
\* observation table divided by the sum of all its entries.
C7_ResetAndFallback ==
    /\ completed = 0 => (samples = << >> /\ samples_lnp = << >>)
    /\ (pc = "draw" /\ it = 0 /\ args.pos_init = None /\ len0 = 0)
          => \A b \in Bins :
               pos[b] * Sum([o \in DOMAIN pdfs |-> Sum(pdfs[o])])
                 = PosDen * Sum([o \in DOMAIN pdfs |-> pdfs[o][b]])

C7_Witness ==
    /\ cleared > 0
    /\ samples = << >>
    /\ pc = "draw" /\ it = 0 /\ args.pos_init = None

\* C8: in a run started from a histogram without negative component, the
\* cached overlap is the product of the observation table with the working
\* histogram before and after every Metropolis-Hastings step.
C8_OverlapConsistent ==
    (InRun /\ ~HasNegative(Start0))
        => /\ overlap = Dot(pdfs, pos)
           /\ last.made => last.overlap = Dot(pdfs, last.pos)

C8_Witness ==
    /\ pc = "mh"
    /\ ~HasNegative(Start0)
    /\ last.made /\ last.accepted
    /\ pos # Start0
    /\ overlap # last.overlap

\* C9: in a run started from a histogram without negative component and
\* with a finite log-posterior, the working histogram, every accepted
\* candidate and every recorded histogram have no negative component.
C9_NonNegative ==
    (InRun /\ ~HasNegative(Start0) /\ Lnpost0.k = "fin")
        => /\ ~HasNegative(pos)
           /\ \A n \in 1..Len(yielded) : ~HasNegative(samples[len0 + n])
           /\ (last.made /\ last.accepted) => ~HasNegative(last.pos_new)

C9_Witness ==
    /\ pc = "done"
    /\ ~HasNegative(Start0) /\ Lnpost0.k = "fin"
    /\ Len(yielded) = 1
    /\ samples[len0 + 1] # Start0
    /\ \E b \in Bins : samples[len0 + 1][b] = 0

\* C3: the incremental call (unperturbed histogram, its cached overlap, the
\* pair and the step d) returns the log-likelihood and the overlap vector of
\* the call from scratch on the histogram perturbed by d.
C3_IncrementalEqualsFull ==
    (call.inc # None /\ call.full # None) => Get(call.inc) = Get(call.full)

\* C10: when the histogram has a negative or non-finite component,
\* loglike_nz returns -inf and an all-zero overlap vector of length Nobs,
\* whatever overlap, pair and pair_step it is given.
C10_InvalidInput ==
    LET bad == call.nz.nanBins # {} \/ \E b \in DOMAIN call.nz.v : call.nz.v[b][1] < 0
        zeros == [o \in 0..(Nobs - 1) |-> << 0 >>]
    IN  /\ (bad /\ call.any # None)
              => Get(call.any).res = [lnlike |-> LnNInf, overlap |-> zeros]
        /\ (bad /\ call.inc # None)
              => Get(call.inc) = [lnlike |-> LnNInf, overlap |-> zeros]

C10_Witness ==
    /\ call.any # None
    /\ call.nz.nanBins = {}
    /\ \E b \in DOMAIN call.nz.v : call.nz.v[b][1] < 0
    /\ Get(call.any).overlap # None
    /\ Get(call.any).pair # None
    /\ Get(call.any).pair_step # None
    /\ call.d # 0
    /\ Get(call.any).res.lnlike = LnNInf

\* C5: the entries a run appends to the trace are a function of the
\* observation table, the prior, the starting histogram, Niter, thin, mh_steps
\* and the values the random source returned: whatever the sampler did before,
\* once the run has made its Niter iterations the histograms and
\* log-posteriors it appended are, entry by entry, those this function gives,
\* so two runs that agree on all of these append identical entries.
C5_Deterministic ==
    pc = "done" =>
        \A st \in { ReplayStart } :
          \A run \in { ReplayRun(st, 1, args.Niter, tape, args) } :
            /\ Len(run) = args.Niter
            /\ Len(samples) = len0 + args.Niter
            /\ \A n \in 1..args.Niter :
                 /\ samples[len0 + n] = run[n][1]
                 /\ samples_lnp[len0 + n] = run[n][2]

\* a finished run on a sampler whose trace ended elsewhere than this run's
\* start, with a move accepted in its first iteration
C5_Witness ==
    /\ pc = "done"
    /\ len0 > 0
    /\ samples[len0] # Start0
    /\ Len(yielded) >= 1
    /\ yielded[1][1] # Start0
    /\ Len(tape.steps) = args.Niter * args.thin * args.mh_steps

\* C13: logprior returns -inf, and does not raise, for every histogram with a
\* negative component and for every histogram whose components do not sum
\* to 1, whatever alpha and counts_ref are.
C13_LogpriorMinusInf ==
    (/\ call.lp # None
     /\ call.nz.nanBins = {}
     /\ \/ \E b \in DOMAIN call.nz.v : call.nz.v[b][1] < 0
        \/ PSum(call.nz.v) # << PosDen >>)
        => Get(call.lp).res = LnNInf

\* a > b on floats holding logarithms
LnGreater(a, b) ==
    \/ a.k = "fin" /\ b.k = "fin" /\ PSign(PSub(a.v, b.v)) > 0
    \/ a.k = "fin" /\ b.k = "ninf"

\* -e < lnpost_new - lnpost on the values a proposal l was made with. A
\* difference with NaN, or of -inf and -inf, is above nothing; -inf is above
\* nothing; +inf is above -e; two finite log-posteriors differ by
\* ln(new / cur), e is ln(UDen / un) or a hair to its side l.e[2], and at
\* e = 0.0 with new = cur the sign l.rnd of the float difference decides
C14_MinusELess(l) ==
    IF l.znan \/ l.lnpost_new.k # "fin" \/ l.lnpost.k = "nan" THEN FALSE
    ELSE IF l.lnpost.k = "ninf" THEN TRUE
    ELSE LET lhs == PScale(l.e[1], l.lnpost.v)
             rhs == PScale(UDen, l.lnpost_new.v)
         IN  \/ PSign(PSub(rhs, lhs)) > 0
             \/ PSign(PSub(rhs, lhs)) = 0 /\ l.e[2] > 0
             \/ PSign(PSub(rhs, lhs)) = 0 /\ l.e[2] = 0 /\ l.rnd > 0

\* C14: a proposal is accepted if and only if -e < lnpost_new - lnpost for its
\* draw e >= 0; hence a candidate whose log-posterior is strictly greater
\* than the current one is accepted whatever the draw; on acceptance the
\* working histogram, log-posterior and overlap are all three the
\* candidate's; on rejection all three are what they were.
C14_MetropolisUpdate ==
    last.made =>
        /\ last.accepted <=> C14_MinusELess(last)
        /\ LnGreater(last.lnpost_new, last.lnpost) => last.accepted
        /\ last.accepted => /\ pos = last.pos_new
                             /\ lnpost = last.lnpost_new
                             /\ overlap = last.overlap_new
        /\ ~last.accepted => /\ pos = last.pos
                              /\ lnpost = last.lnpost
                              /\ overlap = last.overlap

\* an uphill candidate, accepted, that differs from the state it replaced
C14_Witness ==
    /\ last.made /\ last.accepted
    /\ last.lnpost.k = "fin"
    /\ LnGreater(last.lnpost_new, last.lnpost)
    /\ pos = last.pos_new /\ pos # last.pos
    /\ overlap # last.overlap
    /\ lnpost # last.lnpost

\* C15: a candidate whose overlap vector has a zero or negative entry,
\* proposed from a state with finite log-posterior, is rejected whatever the
\* draw; and in a run started from a state with finite log-posterior the
\* working state and every recorded sample have strictly positive overlap
\* entries and a finite log-posterior.
C15_NonPositiveOverlapRejected ==
    /\ (last.made /\ last.lnpost.k = "fin"
            /\ \E o \in DOMAIN last.overlap_new : last.overlap_new[o] <= 0)
          => ~last.accepted
    /\ (InRun /\ Lnpost0.k = "fin")
          => /\ lnpost.k = "fin"
             /\ \A o \in DOMAIN overlap : overlap[o] > 0
             /\ \A n \in 1..Len(yielded) :
                  /\ samples_lnp[len0 + n].k = "fin"
                  /\ \A o \in DOMAIN pdfs : Dot(pdfs, samples[len0 + n])[o] > 0

\* a candidate without negative component whose overlap has a zero entry,
\* proposed from a state with finite log-posterior and rejected
C15_Witness ==
    /\ last.made /\ ~last.znan
    /\ last.lnpost.k = "fin"
    /\ Lnpost0.k = "fin"
    /\ ~HasNegative(last.pos_new)
    /\ \E o \in DOMAIN pdfs : Dot(pdfs, last.pos_new)[o] = 0
    /\ \E o \in DOMAIN last.overlap_new : last.overlap_new[o] = 0
    /\ ~last.accepted
    /\ pos = last.pos

\* C16: within an outer iteration the thin pairs are all drawn before the
\* first proposal; each has two distinct bin indices in 0..Ndim-1; the
\* proposals are made on the pairs in the order drawn, mh_steps proposals on
\* each; and the iteration yields once, after exactly thin * mh_steps
\* proposals.
C16_IterationShape ==
    LET per == args.thin * args.mh_steps
        drawn == tape.pairs[Len(tape.pairs)]
        made == Len(tape.on) - it * per
    IN  /\ \A n \in 1..Len(tape.pairs) :
              /\ Len(tape.pairs[n]) = args.thin
              /\ \A k \in 1..args.thin :
                   /\ tape.pairs[n][k][1] # tape.pairs[n][k][2]
                   /\ tape.pairs[n][k][1] \in 0..(Ndim - 1)
                   /\ tape.pairs[n][k][2] \in 0..(Ndim - 1)
        /\ \A q \in 1..Len(tape.on) :
              /\ ((q - 1) \div per) + 1 <= Len(tape.pairs)
              /\ tape.on[q] = tape.pairs[((q - 1) \div per) + 1]
                                        [(((q - 1) % per) \div args.mh_steps) + 1]
        /\ pc \in {"draw", "done"}
              => /\ Len(tape.pairs) = it
                 /\ Len(tape.on) = it * per
                 /\ Len(yielded) = it
        /\ pc \in {"pair", "mh", "yield"}
              => /\ Len(tape.pairs) = it + 1
                 /\ Len(yielded) = it
                 /\ made >= 0 /\ made <= per
        /\ pc = "yield" => made = per
        /\ pc \in {"pair", "mh"} => made < per
        /\ pc = "pair" => made % args.mh_steps = 0

\* the first iteration of a run with thin = 2 and mh_steps = 2 is about to
\* yield, after two proposals on each of two different pairs
C16_Witness ==
    /\ pc = "yield"
    /\ it = 0
    /\ args.thin = 2 /\ args.mh_steps = 2
    /\ tape.pairs[1][1] # tape.pairs[1][2]
    /\ tape.on = << tape.pairs[1][1], tape.pairs[1][1],
                    tape.pairs[1][2], tape.pairs[1][2] >>

\* every component of the histogram value x lies in [0, 1]
InUnitBox(x) ==
    /\ x.nanBins = {}
    /\ \A b \in DOMAIN x.v : /\ PSign(x.v[b]) >= 0
                              /\ PSign(PSub(<< PosDen >>, x.v[b])) >= 0

\* every component of the histogram of doubles x lies in [0, 1]
InUnitBoxFl(x) ==
    \A b \in DOMAIN x : /\ (x[b].m = << >> \/ x[b].s = 1)
                         /\ FlCmp(x[b], FlInt(1)) <= 0

\* gscale may be abs(scale * 1e4)
CapTaken == gscale.k = "pos" /\ gscale.is \in {"cap", "either", "round"}

C18_NoDivisionByZero ==
    (pc = "mh" /\ ~last.made)
        => /\ ScaleNum(pos, Head(pairs)) # 0
           /\ gscale.grad = "zero"
                 => (gscale.k = "pos" /\ gscale.cap = Abs(ScaleNum(pos, Head(pairs))))

\* C19: no step changes the histogram or the log-posterior of an entry that
\* is in the trace; entries are only added at the end, and the trace gets
\* shorter only by reset, which empties it.
C19_SamplesImmutable ==
    [][/\ \A n \in 1..Len(samples) :
            Len(samples') >= n => /\ samples'[n] = samples[n]
                                  /\ samples_lnp'[n] = samples_lnp[n]
       /\ Len(samples') < Len(samples)
            => (pc = "idle" /\ pc' = "idle" /\ samples' = << >> /\ samples_lnp' = << >>)
       /\ Len(samples') <= Len(samples) + 1]_vars

\* after an entry was appended by this run, a later move was accepted and
\* the working histogram differs from that entry
C19_Witness ==
    /\ it >= 1
    /\ last.made /\ last.accepted
    /\ samples[Len(samples)] = last.pos
    /\ pos # samples[Len(samples)]
    /\ lnpost # samples_lnp[Len(samples)]

\* the log-likelihood from scratch plus the prior, at the histogram p
LnpostOf(p) ==
    LnAdd(loglike_nz(Hist(p), pdfs, None, None, None).lnlike,
          logprior_nz(Hist(p), args.logprior_nz, PosDen))

\* C20: in a run started from a histogram without negative component, the
\* log-posterior carried with the working histogram is the log-likelihood
\* from scratch plus the prior at that histogram, after any accepted or
\* rejected proposals, and so is the one stored with each recorded histogram.
C20_LnpostBookkeeping ==
    (InRun /\ ~HasNegative(Start0))
        => /\ lnpost = LnpostOf(pos)
           /\ \A n \in 1..Len(yielded) :
                samples_lnp[len0 + n] = LnpostOf(samples[len0 + n])

\* a run with the Dirichlet prior has recorded a histogram reached by an
\* accepted move, followed by a rejected proposal
C20_Witness ==
    /\ InRun /\ ~HasNegative(Start0)
    /\ args.logprior_nz.fn = "logprior"
    /\ Len(yielded) >= 1
    /\ samples[len0 + 1] # Start0
    /\ samples_lnp[len0 + 1].k = "fin"
    /\ samples_lnp[len0 + 1] # Lnpost0
    /\ last.made /\ ~last.accepted

\* C12: no step of a run changes the observation table; the array the
\* caller passed as pos_init holds, for as long as the run lasts, the values
\* it was passed with; the overlap vector handed to loglike_nz for the probes
\* and for a rejected candidate is left as it was, and so is the histogram.
C12_InputsUnmodified ==
    [][/\ pdfs' = pdfs
       /\ (pc' \in {"draw", "pair", "mh", "yield", "done"} /\ args'.pos_init # None)
             => caller'.pos_init = args'.pos_init
       /\ (pc = "pair" /\ pc' = "mh") => (overlap' = overlap /\ pos' = pos)
       /\ (pc = "mh" /\ pc' # "raised" /\ ~last'.accepted)
             => (overlap' = overlap /\ pos' = pos)]_vars

\* a run given an array as pos_init has finished with a move accepted: its
\* working histogram differs from the array, which the caller still holds
C12_Witness ==
    /\ pc = "done"
    /\ args.pos_init # None
    /\ caller.pos_init = args.pos_init
    /\ caller.pos_is = "own"
    /\ pos # Get(args.pos_init)
    /\ Len(yielded) >= 1

\* C11: however the outer iterations of two instances are interleaved,
\* with their own random sources or with the default one, what each
\* instance has yielded is what it yields when it runs alone from the same
\* state of its random source.
C11_NoInterference ==
    \A i \in Insts :
        duo.rstate # "none"
            => duo.inst[i].trace = DuoAlone(i, Len(duo.inst[i].trace))

\* the bins of p that are exactly 0, and whether the pair contains one
ZeroBins(p) == { b \in DOMAIN p : p[b] = 0 }
HasZeroBin(p, pair) == pair[1] \in ZeroBins(p) \/ pair[2] \in ZeroBins(p)

\* C21 as stated: whenever a bin of the working histogram is exactly 0, the
\* step scale of every pair containing that bin is 0 and no proposal on
\* that pair changes the working histogram; a bin that is exactly 0 in the
\* starting histogram is exactly 0 in the working histogram and in every
\* recorded sample of the run.
C21_ZeroBinsAbsorbing ==
    /\ (pc = "mh" /\ ~last.made /\ HasZeroBin(pos, Head(pairs)))
          => ScaleNum(pos, Head(pairs)) = 0
    /\ (InRun /\ last.made /\ HasZeroBin(last.pos, last.pair))
          => pos = last.pos
    /\ InRun => \A b \in ZeroBins(Start0) :
                   /\ pos[b] = 0
                   /\ \A n \in 1..Len(yielded) : samples[len0 + n][b] = 0

\* C21 amended: whenever a bin of a working histogram with every component
\* in [0, 1] is exactly 0, the step scale of every pair containing that bin
\* is 0, gscale is not a positive number and no proposal on that pair changes
\* the working histogram; and in a run started on the simplex (no negative
\* component, sum 1) a bin that is exactly 0 in the starting histogram is
\* exactly 0 in the working histogram and in every recorded sample.
C21_ZeroBinsAbsorbingOnSimplex ==
    /\ (pc = "mh" /\ ~last.made /\ HasZeroBin(pos, Head(pairs))
           /\ InUnitBox(Hist(pos)))
          => /\ ScaleNum(pos, Head(pairs)) = 0
             /\ gscale.k # "pos"
    /\ (InRun /\ last.made /\ HasZeroBin(last.pos, last.pair)
           /\ InUnitBox(Hist(last.pos)))
          => pos = last.pos
    /\ (InRun /\ OnSimplex(Start0) /\ ~HasNegative(Start0))
          => /\ InUnitBox(Hist(pos))
             /\ \A b \in ZeroBins(Start0) :
                   /\ pos[b] = 0
                   /\ \A n \in 1..Len(yielded) : samples[len0 + n][b] = 0

\* a run on three bins, started on the simplex with a zero bin, has recorded
\* a sample that an accepted move on the two other bins made different from
\* the start, and has made a further proposal on a pair containing the zero
\* bin
C21_Witness ==
    /\ pc = "yield"
    /\ Ndim = 3
    /\ OnSimplex(Start0) /\ ~HasNegative(Start0)
    /\ ZeroBins(Start0) # {}
    /\ Len(yielded) >= 1
    /\ yielded[1][1] # Start0
    /\ last.made /\ HasZeroBin(last.pos, last.pair)

====
